---- MODULE Spec2Model ----
(***************************************************************************)
(* A model of ptab: a lock-free, fixed-capacity concurrent table           *)
(* (src/src/table.rs) addressed by generational Detached identifiers       *)
(* (src/src/index.rs).  Every atomic access of Table::write,               *)
(* Table::remove, the lookups and WeakKeys::next is one step of the        *)
(* calling thread; the steps of different threads interleave (sequentially *)
(* consistent atomics).  The collector is modelled by the contract of      *)
(* src/src/reclaim/traits.rs; Drop for Table, which has exclusive access,  *)
(* is one step.                                                            *)
(***************************************************************************)
EXTENDS Integers, Sequences, FiniteSets, TLC

(***************************************************************************)
(* Parameters.                                                             *)
(***************************************************************************)
\* P::LENGTH of the table under analysis: Capacity::MIN, the loom tests' table.
LENGTH == 16
\* Slots per cache line: CACHE_LINE / size_of::<AtomicUsize>().
CACHE_LINE_SLOTS == 8
\* Capacity::MAX (1 << 27), the configuration that withholds one identifier.
CAPACITY_MAX == 134217728

\* Width of usize in the model (the machine word, scaled down).
WordBits == 8
\* Width of the u32 counters entries / next_id / free_id in the model.
CursorBits == 6
\* Operations the worker threads perform in one behaviour, all together.
MaxOps == 3
\* Operations of the worker threads when remove() is only called with live
\* identifiers.
MaxLiveOps == 4
\* Operations of the single thread of the sequential specification.
MaxSeqOps == 4
\* Operations of the workers, and of the reader, in the reading specification.
MaxReadOps == 2
\* Operations of the workers when both builds are analysed.
MaxBuildOps == 2
\* Rounds of a retry loop that are counted.
MaxRounds == 40
\* Capacity::MIN (1 << 4).
CAPACITY_MIN == 16
\* The capacities analysed by the index algebra: 2^4 .. 2^MaxCapacityBits.
MaxCapacityBits == 6
\* Operations of the workers when an initializer may panic.
MaxPanicOps == 3
\* Operations of the workers in the specification with fairness.
MaxFairOps == 2
\* Spurious failures of compare_exchange_weak allowed in one behaviour.
MaxSpurious == 1

RECURSIVE Pow2(_)
Pow2(n) == IF n = 0 THEN 1 ELSE 2 * Pow2(n - 1)

WordMod == Pow2(WordBits)
U32Mod == Pow2(CursorBits)

\* const RESERVED: usize = usize::MAX
RESERVED == WordMod - 1

\* A null data pointer; Option::None as a result.
NULL == [null |-> TRUE]
NONE == -1

(***************************************************************************)
(* Machine-word operations.                                                *)
(***************************************************************************)
RECURSIVE BitAnd(_, _)
BitAnd(a, b) ==
  IF a = 0 \/ b = 0 THEN 0
  ELSE (a % 2) * (b % 2) + 2 * BitAnd(a \div 2, b \div 2)

RECURSIVE BitOr(_, _)
BitOr(a, b) ==
  IF a = 0 THEN b
  ELSE IF b = 0 THEN a
  ELSE (IF (a % 2) + (b % 2) > 0 THEN 1 ELSE 0) + 2 * BitOr(a \div 2, b \div 2)

BitNot(a) == (WordMod - 1) - a

Shl(a, k) == (a * Pow2(k)) % WordMod

Shr(a, k) == a \div Pow2(k)

WrappingAdd(a, b) == (a + b) % WordMod

RECURSIVE TrailingOnes(_)
TrailingOnes(a) == IF a % 2 = 1 THEN 1 + TrailingOnes(a \div 2) ELSE 0

RECURSIVE TrailingZeros(_)
TrailingZeros(a) == IF a % 2 = 0 THEN 1 + TrailingZeros(a \div 2) ELSE 0

(***************************************************************************)
(* Derived parameters (ParamsExt).                                         *)
(***************************************************************************)
\* derive_blocks: LENGTH slots rounded up to whole cache lines.
BLOCKS == (LENGTH + CACHE_LINE_SLOTS - 1) \div CACHE_LINE_SLOTS

ID_MASK_BITS == TrailingZeros(LENGTH)
ID_MASK_ENTRY == Pow2(ID_MASK_BITS) - 1
ID_MASK_BLOCK == BLOCKS - 1
ID_MASK_INDEX == CACHE_LINE_SLOTS - 1
ID_SHIFT_BLOCK == TrailingOnes(ID_MASK_INDEX)
ID_SHIFT_INDEX == TrailingOnes(ID_MASK_BLOCK)

(***************************************************************************)
(* Identifier algebra (index.rs).                                          *)
(***************************************************************************)
abstract_to_concrete(a) ==
  WrappingAdd(Shl(BitAnd(a, ID_MASK_BLOCK), ID_SHIFT_BLOCK),
              BitAnd(Shr(a, ID_SHIFT_INDEX), ID_MASK_INDEX))

detached_to_concrete(d) == BitAnd(d, ID_MASK_ENTRY)

detached_to_abstract(d) ==
  BitOr(BitOr(BitAnd(d, BitNot(ID_MASK_ENTRY)),
              BitAnd(Shr(d, ID_SHIFT_BLOCK), ID_MASK_BLOCK)),
        Shl(BitAnd(d, ID_MASK_INDEX), ID_SHIFT_INDEX))

\* Fault: the abstract index is handed out as the identifier, unpermuted.
abstract_to_detached_plain(a) == a

abstract_to_detached(a) ==
  BitOr(BitAnd(a, BitNot(ID_MASK_ENTRY)), abstract_to_concrete(a))

(***************************************************************************)
(* The same parameters and conversions for any build: a target (the size   *)
(* of a cache line and of a word in bytes) and a capacity. P is the record *)
(* of a build's parameters.                                                *)
(***************************************************************************)
\* CachePadded: the alignment each target_arch selects, with the width of
\* usize on the targets of that arch.
Targets ==
  {[CACHE_LINE |-> 128, WIDTH |-> 8],   \* x86_64, aarch64, arm64ec, powerpc64
   [CACHE_LINE |-> 32, WIDTH |-> 4],    \* arm, mips, mips32r6, sparc, hexagon
   [CACHE_LINE |-> 32, WIDTH |-> 8],    \* mips64, mips64r6
   [CACHE_LINE |-> 16, WIDTH |-> 4],    \* m68k
   [CACHE_LINE |-> 256, WIDTH |-> 8],   \* s390x
   [CACHE_LINE |-> 64, WIDTH |-> 4],    \* every other 32-bit arch
   [CACHE_LINE |-> 64, WIDTH |-> 8]}    \* every other 64-bit arch

\* Capacity: the powers of two from Capacity::MIN up.
Capacities == {Pow2(k) : k \in TrailingZeros(CAPACITY_MIN) .. MaxCapacityBits}

\* usize::checked_next_multiple_of
NextMultipleOf(x, m) == ((x + m - 1) \div m) * m

\* derive_blocks
derive_blocks(target, length) ==
  NextMultipleOf(length * target.WIDTH, target.CACHE_LINE) \div target.CACHE_LINE

\* Params and ParamsExt of the build for target with LENGTH = length.
ParamsExt(target, length) ==
  LET slots == target.CACHE_LINE \div target.WIDTH
      blocks == derive_blocks(target, length)
  IN  [LENGTH |-> length,
       CACHE_LINE |-> target.CACHE_LINE,
       WIDTH |-> target.WIDTH,
       CACHE_LINE_SLOTS |-> slots,
       BLOCKS |-> blocks,
       ID_MASK_BITS |-> TrailingZeros(length),
       ID_MASK_ENTRY |-> Pow2(TrailingZeros(length)) - 1,
       ID_MASK_BLOCK |-> blocks - 1,
       ID_MASK_INDEX |-> slots - 1,
       ID_SHIFT_BLOCK |-> TrailingOnes(slots - 1),
       ID_SHIFT_INDEX |-> TrailingOnes(blocks - 1)]

\* Fault: the block is taken from the bits above the in-block offset.
abstract_to_concrete_P_highblock(P, a) ==
  WrappingAdd(Shl(BitAnd(Shr(a, P.ID_SHIFT_BLOCK), P.ID_MASK_BLOCK), P.ID_SHIFT_BLOCK),
              BitAnd(a, P.ID_MASK_INDEX))

\* Fault: the block is not shifted above the in-block offset.
abstract_to_concrete_P_unshifted(P, a) ==
  WrappingAdd(BitAnd(a, P.ID_MASK_BLOCK),
              BitAnd(Shr(a, P.ID_SHIFT_INDEX), P.ID_MASK_INDEX))

abstract_to_concrete_P(P, a) ==
  WrappingAdd(Shl(BitAnd(a, P.ID_MASK_BLOCK), P.ID_SHIFT_BLOCK),
              BitAnd(Shr(a, P.ID_SHIFT_INDEX), P.ID_MASK_INDEX))

\* Fault: the whole word is passed on as the index.
detached_to_concrete_P_unmasked(P, d) == d

detached_to_concrete_P(P, d) == BitAnd(d, P.ID_MASK_ENTRY)

\* Fault: the low bits are passed on as they are.
detached_to_abstract_P_plain(P, d) == d

detached_to_abstract_P(P, d) ==
  BitOr(BitOr(BitAnd(d, BitNot(P.ID_MASK_ENTRY)),
              BitAnd(Shr(d, P.ID_SHIFT_BLOCK), P.ID_MASK_BLOCK)),
        Shl(BitAnd(d, P.ID_MASK_INDEX), P.ID_SHIFT_INDEX))

abstract_to_detached_P(P, a) ==
  BitOr(BitAnd(a, BitNot(P.ID_MASK_ENTRY)), abstract_to_concrete_P(P, a))

\* Fault: RESERVED is not skipped.
generate_next_slot_P_once(P, index) == WrappingAdd(index, P.LENGTH)

\* Table::generate_next_slot
generate_next_slot_P(P, index) ==
  LET data == WrappingAdd(index, P.LENGTH)
  IN  IF data = RESERVED THEN WrappingAdd(data, P.LENGTH) ELSE data

(***************************************************************************)
(* State.                                                                  *)
(***************************************************************************)
VARIABLES
  entries,   \* Volatile::entries (u32)
  next_id,   \* Volatile::next_id (u32)
  free_id,   \* Volatile::free_id (u32)
  slot,      \* ReadOnly::slot: the metadata cells, by concrete index
  data,      \* ReadOnly::data: NULL or the element a write published
  retired,   \* elements evict handed to the collector
  th,        \* per thread: position in its operation, locals, results
  spur,      \* spurious compare_exchange_weak failures so far
  live,      \* elements published and not evicted since
  settled,   \* live elements no remove call has targeted since their insert returned
  removed,   \* identifiers a remove returned true for, no insert into the slot returned since
  sawFull,   \* per thread: the table was at capacity during its current/last insert
  prefill,   \* number of sequential inserts performed before the threads start
  budget,    \* operations the threads may still begin, counted from the start
  capacity_max,  \* Capacity::MAX of the build
  destroyed, \* retired elements whose destructor the collector has run
  deferred,  \* per thread: elements evicted while the thread's Guard is alive
  dropped,   \* Drop for Table: whether it ran, what data[] held, what it destroyed
  conv       \* the build whose index conversions are analysed, and the last conversion

tabvars == <<entries, next_id, free_id, slot, data, retired>>
vars == <<entries, next_id, free_id, slot, data, retired, th, spur,
          live, settled, removed, sawFull, prefill, budget, capacity_max,
          destroyed, deferred, dropped, conv>>
\* What the table operations other than an eviction leave alone.
auxvars == <<destroyed, deferred, dropped, conv>>

MainThread == 0
Workers == {1, 2}
Threads == {MainThread} \cup Workers

Slots == 0 .. (LENGTH - 1)

\* The table as a record (the state the steps of Table read and write).
Tab == [entries |-> entries, next_id |-> next_id, free_id |-> free_id,
        slot |-> slot, data |-> data, retired |-> retired, live |-> live]

(***************************************************************************)
(* Construction.                                                           *)
(***************************************************************************)
\* Fault: every physical position stores its own offset.
new_slot_array_linear(offset) == offset

\* ReadOnly::new_slot_array: the value stored at physical position offset.
new_slot_array(offset) ==
  LET block == offset \div CACHE_LINE_SLOTS
      index == offset % CACHE_LINE_SLOTS
  IN  index * BLOCKS + block

\* Volatile::new: entries starts at 1 at Capacity::MAX.
\* Fault: the counter starts at 1 in the builds where no identifier has to be
\* withheld, and at 0 where one has.
VolatileNewEntries_swapped == IF LENGTH = capacity_max THEN 0 ELSE 1

VolatileNewEntries == IF LENGTH = capacity_max THEN 1 ELSE 0

\* Table::new
TableNew ==
  [entries |-> VolatileNewEntries, next_id |-> 0, free_id |-> 0,
   slot |-> [p \in Slots |-> new_slot_array(p)],
   data |-> [p \in Slots |-> NULL],
   retired |-> {}, live |-> {}]

(***************************************************************************)
(* Atomic accesses (Volatile, AtomicUsize, reclaim::Atomic).               *)
(***************************************************************************)
U32Add(a, b) == (a + b) % U32Mod
U32Sub(a, b) == (a + U32Mod - b) % U32Mod

\* Volatile::incr_entries: fetch_add(1), returns the previous value.
incr_entries(T) == [tab |-> [T EXCEPT !.entries = U32Add(@, 1)], prev |-> T.entries]

\* Volatile::decr_entries: fetch_sub(1).
decr_entries(T) == [T EXCEPT !.entries = U32Sub(@, 1)]

\* Fault: the compare-exchange reports success without storing the new value.
swap_entries_lost(T, current, updated, fail) ==
  IF T.entries = current /\ ~fail
  THEN [tab |-> T, ok |-> TRUE, seen |-> current]
  ELSE [tab |-> T, ok |-> FALSE, seen |-> T.entries]

\* Fault: a plain store of the new value, whatever the counter holds.
swap_entries_store(T, current, updated, fail) ==
  [tab |-> [T EXCEPT !.entries = updated], ok |-> TRUE, seen |-> current]

\* Volatile::swap_entries: compare_exchange_weak(current, updated); fail is a
\* spurious failure. Err carries the value observed.
swap_entries(T, current, updated, fail) ==
  IF T.entries = current /\ ~fail
  THEN [tab |-> [T EXCEPT !.entries = updated], ok |-> TRUE, seen |-> current]
  ELSE [tab |-> T, ok |-> FALSE, seen |-> T.entries]

\* Volatile::fetch_next_id: Abstract::new(next_id.fetch_add(1) as usize).
fetch_next_id(T) == [tab |-> [T EXCEPT !.next_id = U32Add(@, 1)], id |-> T.next_id]

\* Volatile::fetch_free_id: Abstract::new(free_id.fetch_add(1) as usize).
fetch_free_id(T) == [tab |-> [T EXCEPT !.free_id = U32Add(@, 1)], id |-> T.free_id]

\* Fault: the cell is loaded, not swapped.
slot_swap_peek(T, c) == [tab |-> T, result |-> T.slot[c]]

\* acquire_slot: slot.get(concrete).swap(RESERVED).
slot_swap_reserved(T, c) == [tab |-> [T EXCEPT !.slot[c] = RESERVED], result |-> T.slot[c]]

\* release_slot: slot.get(concrete).compare_exchange_weak(RESERVED, value).
slot_cas_reserved(T, c, value, fail) ==
  IF T.slot[c] = RESERVED /\ ~fail
  THEN [tab |-> [T EXCEPT !.slot[c] = value], ok |-> TRUE]
  ELSE [tab |-> T, ok |-> FALSE]

\* Atomic::write: swap the new element in; the element found there stays in
\* `live` (it was never evicted) when the cell was occupied.
atomic_write(T, c, elem) ==
  [T EXCEPT !.data[c] = elem, !.live = @ \cup {elem}]

\* Fault: whatever the swap found, null included, is handed to the collector.
atomic_evict_always(T, c) ==
  [tab |-> [T EXCEPT !.data[c] = NULL,
                     !.retired = @ \cup {T.data[c]},
                     !.live = @ \ {T.data[c]}],
   ok |-> T.data[c] # NULL]

\* Fault: the cell is loaded, not swapped: the element is handed to the
\* collector and stays in the cell.
atomic_evict_load(T, c) ==
  IF T.data[c] = NULL
  THEN [tab |-> T, ok |-> FALSE]
  ELSE [tab |-> [T EXCEPT !.retired = @ \cup {T.data[c]}], ok |-> TRUE]

\* Atomic::evict: swap null in; true iff an element was there, which goes to
\* the collector.
atomic_evict(T, c) ==
  IF T.data[c] = NULL
  THEN [tab |-> T, ok |-> FALSE]
  ELSE [tab |-> [T EXCEPT !.data[c] = NULL,
                          !.retired = @ \cup {T.data[c]},
                          !.live = @ \ {T.data[c]}],
        ok |-> TRUE]

\* Atomic::read + Shared::is_null / as_ref (Table::load).
TableLoad(c) == data[c]

(***************************************************************************)
(* Table: pure parts.                                                      *)
(***************************************************************************)
\* Table::cap
TableCap == IF LENGTH = capacity_max THEN LENGTH - 1 ELSE LENGTH

\* Fault: the length is reported without the clamp to the capacity.
LenOf_unclamped(e) ==
  IF LENGTH = capacity_max THEN U32Sub(e, 1) ELSE e

\* Fault: one is subtracted from the counter in every build.
LenOf_less(e) ==
  IF U32Sub(e, 1) > TableCap THEN TableCap ELSE U32Sub(e, 1)

\* Table::len on an entries value.
LenOf(e) ==
  LET isMax == LENGTH = capacity_max
      len == IF isMax THEN U32Sub(e, 1) ELSE e
      max == IF isMax THEN LENGTH - 1 ELSE LENGTH
  IN  IF len > max THEN max ELSE len

TableLen == LenOf(entries)

\* Fault: the capacity test admits one insert too many.
HasPermit_inclusive(prev) == prev <= LENGTH

\* Fault: the capacity test refuses the last free slot.
HasPermit_early(prev) == prev + 1 < LENGTH

\* Table::reserve_slot: the test on the value fetch_add returned.
HasPermit(prev) == prev < LENGTH

\* Fault: the released index advances by one instead of by a generation.
generate_next_slot_stride(index) == WrappingAdd(index, 1)

\* Fault: the released index keeps its generation.
generate_next_slot_same(index) == index

\* Table::generate_next_slot
generate_next_slot(index) ==
  LET d == WrappingAdd(index, LENGTH)
  IN  IF d = RESERVED THEN WrappingAdd(d, LENGTH) ELSE d

\* Table::exists / Table::with / Table::read through Table::find.
TableFind(key) == TableLoad(detached_to_concrete(key))
TableExists(key) == TableFind(key) # NULL
TableRead(key) == IF TableFind(key) = NULL THEN NONE ELSE TableFind(key).val

\* The element write() publishes for the claimed Abstract.
Element(abs, v) == [key |-> abstract_to_detached(abs), val |-> v]

(***************************************************************************)
(* A whole sequential insert, as the constructing thread runs it before    *)
(* any other thread exists: reserve_slot, acquire_slot, publish.           *)
(***************************************************************************)
RECURSIVE acquire_slot(_)
acquire_slot(T) ==
  LET f == fetch_next_id(T)
      s == slot_swap_reserved(f.tab, abstract_to_concrete(f.id))
  IN  IF s.result = RESERVED THEN acquire_slot(s.tab)
      ELSE [tab |-> s.tab, abs |-> s.result]

SeqInsert(T, v) ==
  LET r == incr_entries(T)
  IN  IF HasPermit(r.prev)
      THEN LET a == acquire_slot(r.tab)
           IN  atomic_write(a.tab, abstract_to_concrete(a.abs), Element(a.abs, v))
      ELSE T

(***************************************************************************)
(* The loops of one thread running while every other thread stands still:  *)
(* the number of rounds each takes from table T (n counts the rounds; the  *)
(* count stops at MaxRounds). spurious is the number of compare-exchanges  *)
(* that fail spuriously, each at the first cell where one would succeed.   *)
(***************************************************************************)
\* acquire_slot: rounds of fetch_next_id and swap until a cell is claimed.
RECURSIVE acquire_slot_rounds(_, _)
acquire_slot_rounds(T, n) ==
  LET f == fetch_next_id(T)
      s == slot_swap_reserved(f.tab, abstract_to_concrete(f.id))
  IN  IF s.result = RESERVED /\ n < MaxRounds THEN acquire_slot_rounds(s.tab, n + 1)
      ELSE n

\* release_slot: rounds of fetch_free_id and compare_exchange_weak until
\* value is deposited.
RECURSIVE release_slot_rounds(_, _, _, _)
release_slot_rounds(T, value, spurious, n) ==
  LET f == fetch_free_id(T)
      c == abstract_to_concrete(f.id)
      fail == spurious > 0 /\ f.tab.slot[c] = RESERVED
      r == slot_cas_reserved(f.tab, c, value, fail)
  IN  IF ~r.ok /\ n < MaxRounds
      THEN release_slot_rounds(r.tab, value, IF fail THEN spurious - 1 ELSE spurious, n + 1)
      ELSE n

\* reserve_slot: rounds of swap_entries until the increment is undone.
RECURSIVE reserve_slot_undo_rounds(_, _, _, _)
reserve_slot_undo_rounds(T, current, spurious, n) ==
  LET fail == spurious > 0 /\ T.entries = current
      r == swap_entries(T, current, U32Sub(current, 1), fail)
  IN  IF ~r.ok /\ n < MaxRounds
      THEN reserve_slot_undo_rounds(r.tab, r.seen, IF fail THEN spurious - 1 ELSE spurious, n + 1)
      ELSE n

\* Values the constructing thread inserts: 100, 101, ...
PrefillValue(i) == 100 + i

\* k sequential inserts into table T.
RECURSIVE Filled(_, _)
Filled(T, k) ==
  IF k = 0 THEN T ELSE SeqInsert(Filled(T, k - 1), PrefillValue(k - 1))

Prefilled(k) == Filled(TableNew, k)

(***************************************************************************)
(* Threads.                                                                *)
(***************************************************************************)
Idle == [pc |-> "idle", val |-> 0, key |-> 0, current |-> 0, cur |-> 0,
         abs |-> 0, nxt |-> 0, held |-> NULL,
         total |-> 0, index |-> 0, yielded |-> <<>>]

\* The identifiers remove() is called with: the first two the table hands out
\* and the next generation of the first (live, stale or never issued, as the
\* state has it).
KeyPool == {abstract_to_detached(a) : a \in {0, 1, LENGTH}}

\* The value of a thread's n-th operation, when that is an insert.
ValueOf(t, n) == 10 * t + n

\* Operations a thread has begun.
Begun(t) == Len(th[t].rets) + (IF th[t].pc = "idle" THEN 0 ELSE 1)

MayCall(t) ==
  /\ th[t].pc = "idle"
  /\ ~dropped.done
  /\ IF t = MainThread THEN Begun(t) < budget
     ELSE Begun(1) + Begun(2) < budget

\* Outcomes of a compare_exchange_weak: it may fail spuriously.
SpuriousChoices == IF spur < MaxSpurious THEN {FALSE, TRUE} ELSE {FALSE}

Occupied == {c \in Slots : data[c] # NULL}
InsertPcs == {"undo", "next", "claim", "publish"}
PermitPcs == {"next", "claim", "publish"}
\* Inserts holding a Permit (reserve_slot returned Some, not yet published).
Reserving == {t \in Threads : th[t].pc \in PermitPcs}
\* Removes between their eviction and decr_entries.
Releasing == {t \in Threads : th[t].pc \in {"free", "deposit", "decr"}}
\* Failed inserts that have not undone their increment yet.
Undoing == {t \in Threads : th[t].pc = "undo"}
Quiescent == \A t \in Threads : th[t].pc = "idle"

AtCapacity == Cardinality(Occupied) + Cardinality(Reserving) = TableCap

Apply(T) ==
  /\ entries' = T.entries
  /\ next_id' = T.next_id
  /\ free_id' = T.free_id
  /\ slot' = T.slot
  /\ data' = T.data
  /\ retired' = T.retired
  /\ live' = T.live

\* An operation returns: its result is recorded, its locals die.
Return(t, op, arg, ret) ==
  th' = [th EXCEPT ![t] = [Idle EXCEPT !.pc = "idle"] @@
                          [rets |-> Append(th[t].rets, [op |-> op, arg |-> arg, ret |-> ret])]]

\* The table was at capacity at some instant of the insert a thread is in.
TrackFull ==
  sawFull' = [u \in Threads |->
     IF th[u].pc = "idle" /\ th'[u].pc \in InsertPcs THEN AtCapacity \/ AtCapacity'
     ELSE IF th[u].pc \in InsertPcs THEN sawFull[u] \/ AtCapacity'
     ELSE sawFull[u]]

(***************************************************************************)
(* Table::write (insert), one step per atomic access.                      *)
(***************************************************************************)
\* write is called; reserve_slot: incr_entries and the test of its result.
WriteReserve(t) ==
  /\ MayCall(t)
  /\ LET r == incr_entries(Tab)
         v == ValueOf(t, Len(th[t].rets) + 1)
     IN  /\ Apply(r.tab)
         /\ IF HasPermit(r.prev)
            THEN th' = [th EXCEPT ![t].pc = "next", ![t].val = v]
            ELSE th' = [th EXCEPT ![t].pc = "undo", ![t].val = v,
                                  ![t].current = U32Add(r.prev, 1)]
  /\ UNCHANGED <<spur, settled, removed, prefill, budget, capacity_max, auxvars>>
  /\ TrackFull

\* reserve_slot: one round of the loop that undoes the increment.
WriteUndo(t) ==
  /\ th[t].pc = "undo"
  /\ \E fail \in SpuriousChoices :
       LET r == swap_entries(Tab, th[t].current, U32Sub(th[t].current, 1), fail)
       IN  /\ Apply(r.tab)
           /\ IF r.ok
              THEN Return(t, "insert", th[t].val, NONE)
              ELSE th' = [th EXCEPT ![t].current = r.seen]
           /\ spur' = IF fail /\ Tab.entries = th[t].current THEN spur + 1 ELSE spur
  /\ UNCHANGED <<settled, removed, prefill, budget, capacity_max, auxvars>>
  /\ TrackFull

\* acquire_slot: fetch_next_id.
AcquireFetch(t) ==
  /\ th[t].pc = "next"
  /\ LET f == fetch_next_id(Tab)
     IN  /\ Apply(f.tab)
         /\ th' = [th EXCEPT ![t].pc = "claim", ![t].cur = f.id]
  /\ UNCHANGED <<spur, settled, removed, prefill, budget, capacity_max, auxvars>>
  /\ TrackFull

\* acquire_slot: swap RESERVED into the cell under the cursor.
AcquireSwap(t) ==
  /\ th[t].pc = "claim"
  /\ LET s == slot_swap_reserved(Tab, abstract_to_concrete(th[t].cur))
     IN  /\ Apply(s.tab)
         /\ IF s.result = RESERVED
            THEN th' = [th EXCEPT ![t].pc = "next", ![t].cur = 0]
            ELSE th' = [th EXCEPT ![t].pc = "publish", ![t].abs = s.result]
  /\ UNCHANGED <<spur, settled, removed, prefill, budget, capacity_max, auxvars>>
  /\ TrackFull

\* write: build the element and swap it into data[concrete]; return Some.
WritePublish(t) ==
  /\ th[t].pc = "publish"
  /\ LET c == abstract_to_concrete(th[t].abs)
         e == Element(th[t].abs, th[t].val)
     IN  /\ Apply(atomic_write(Tab, c, e))
         /\ settled' = settled \cup {e}
         /\ removed' = {d \in removed : detached_to_concrete(d) # c}
         /\ Return(t, "insert", th[t].val, e.key)
  /\ UNCHANGED <<spur, prefill, budget, capacity_max, auxvars>>
  /\ TrackFull

\* write: the initializer panics inside Atomic::write, before the swap; the
\* call unwinds with the identifier claimed, the counter incremented and the
\* cell of data[] untouched (a Permit has no destructor).
WritePanic(t) ==
  /\ th[t].pc = "publish"
  /\ Return(t, "write_panic", abstract_to_concrete(th[t].cur), abstract_to_detached(th[t].abs))
  /\ UNCHANGED <<tabvars, live, spur, settled, removed, prefill, budget, capacity_max, auxvars>>
  /\ TrackFull

(***************************************************************************)
(* Table::remove, one step per atomic access.                              *)
(***************************************************************************)
\* remove(key) is called.
RemoveCall(t, key) ==
  /\ MayCall(t)
  /\ th' = [th EXCEPT ![t].pc = "evict", ![t].key = key]
  /\ settled' = {e \in settled : detached_to_concrete(e.key) # detached_to_concrete(key)}
  /\ UNCHANGED <<tabvars, live, spur, removed, prefill, budget, capacity_max, auxvars>>
  /\ TrackFull

\* Positions at which a thread holds a Guard (PTab::exists/with/read create it
\* before they touch the table and drop it when they return; a WeakKeys
\* iterator owns one).
GuardPcs == {"load", "use", "keys"}
Guarded(t) == th[t].pc \in GuardPcs

\* The collector's side of an eviction: the destruction of the elements handed
\* over is deferred for every Guard alive at that instant.
Defer(elems) ==
  deferred' = [u \in Threads |-> IF Guarded(u) THEN deferred[u] \cup elems ELSE deferred[u]]

\* remove: evict data[concrete]; return false when it was null.
RemoveEvict(t) ==
  /\ th[t].pc = "evict"
  /\ LET r == atomic_evict(Tab, detached_to_concrete(th[t].key))
     IN  /\ Apply(r.tab)
         /\ IF r.ok
            THEN th' = [th EXCEPT ![t].pc = "free",
                          ![t].nxt = generate_next_slot(detached_to_abstract(th[t].key))]
            ELSE Return(t, "remove", th[t].key, FALSE)
         /\ Defer(r.tab.retired \ retired)
  /\ UNCHANGED <<spur, settled, removed, prefill, budget, capacity_max, destroyed, dropped, conv>>
  /\ TrackFull

\* release_slot: fetch_free_id.
ReleaseFetch(t) ==
  /\ th[t].pc = "free"
  /\ LET f == fetch_free_id(Tab)
     IN  /\ Apply(f.tab)
         /\ th' = [th EXCEPT ![t].pc = "deposit", ![t].cur = f.id]
  /\ UNCHANGED <<spur, settled, removed, prefill, budget, capacity_max, auxvars>>
  /\ TrackFull

\* release_slot: compare_exchange_weak(RESERVED, data) on the cell under the cursor.
ReleaseDeposit(t) ==
  /\ th[t].pc = "deposit"
  /\ \E fail \in SpuriousChoices :
       LET c == abstract_to_concrete(th[t].cur)
           r == slot_cas_reserved(Tab, c, th[t].nxt, fail)
       IN  /\ Apply(r.tab)
           /\ th' = [th EXCEPT ![t].pc = IF r.ok THEN "decr" ELSE "free", ![t].cur = 0]
           /\ spur' = IF fail /\ Tab.slot[c] = RESERVED THEN spur + 1 ELSE spur
  /\ UNCHANGED <<settled, removed, prefill, budget, capacity_max, auxvars>>
  /\ TrackFull

\* release_slot: decr_entries; remove returns true.
ReleaseDecr(t) ==
  /\ th[t].pc = "decr"
  /\ Apply(decr_entries(Tab))
  /\ Return(t, "remove", th[t].key, TRUE)
  /\ removed' = removed \cup {th[t].key}
  /\ UNCHANGED <<spur, settled, prefill, budget, capacity_max, auxvars>>
  /\ TrackFull

\* A step of thread t that accesses the table.
(***************************************************************************)
(* PTab::read (with(key, |v| *v)): Guard::new, Table::find, the closure.   *)
(***************************************************************************)
\* A read of a destroyed element: the bytes it yields are not a value.
FREED == -2

\* The call: the Guard is created.
ReadCall(t, key) ==
  /\ MayCall(t)
  /\ th' = [th EXCEPT ![t].pc = "load", ![t].key = key]
  /\ UNCHANGED <<tabvars, live, spur, settled, removed, prefill, budget, capacity_max, auxvars>>
  /\ TrackFull

\* Table::find: load data[concrete(key)] under the Guard.
ReadLoad(t) ==
  /\ th[t].pc = "load"
  /\ th' = [th EXCEPT ![t].pc = "use", ![t].held = TableFind(th[t].key)]
  /\ UNCHANGED <<tabvars, live, spur, settled, removed, prefill, budget, capacity_max, auxvars>>
  /\ TrackFull

\* Shared::as_ref().map(f), then the Guard is dropped and the call returns.
ReadReturn(t) ==
  /\ th[t].pc = "use"
  /\ LET e == th[t].held
         ret == IF e = NULL THEN NONE ELSE IF e \in destroyed THEN FREED ELSE e.val
     IN  Return(t, "read", th[t].key, ret)
  /\ deferred' = [deferred EXCEPT ![t] = {}]
  /\ UNCHANGED <<tabvars, live, spur, settled, removed, prefill, budget, capacity_max, destroyed, dropped, conv>>
  /\ TrackFull

ReadStep(t) == ReadLoad(t) \/ ReadReturn(t)

(***************************************************************************)
(* PTab::weak_keys and WeakKeys::next, one step per slot visited.          *)
(***************************************************************************)
\* Fault: the iterator walks the data array in physical order.
weak_keys_slot_physical(index) == index

\* The cell WeakKeys::next loads for its cursor: Concrete::from_abstract of
\* Abstract::new(index).
weak_keys_slot(index) == abstract_to_concrete(index)

\* What WeakKeys::next returns for a non-null cell.
weak_keys_item(index) == abstract_to_detached(index)

\* WeakKeys::new: total and index are set, the Guard moves into the iterator.
WeakKeysCall(t) ==
  /\ MayCall(t)
  /\ th' = [th EXCEPT ![t].pc = "keys", ![t].total = TableCap, ![t].index = 0,
                       ![t].yielded = <<>>]
  /\ UNCHANGED <<tabvars, live, spur, settled, removed, prefill, budget, capacity_max, auxvars>>
  /\ TrackFull

\* One round of the loop of WeakKeys::next: the cell of the cursor is loaded,
\* the cursor advances, a non-null cell makes next() return an identifier.
WeakKeysVisit(t) ==
  /\ th[t].pc = "keys"
  /\ th[t].index < th[t].total
  /\ LET ptr == TableLoad(weak_keys_slot(th[t].index))
         item == [id |-> weak_keys_item(th[t].index), found |-> ptr]
     IN  th' = [th EXCEPT ![t].index = @ + 1,
                          ![t].yielded = IF ptr = NULL THEN @ ELSE Append(@, item)]
  /\ UNCHANGED <<tabvars, live, spur, settled, removed, prefill, budget, capacity_max, auxvars>>
  /\ TrackFull

\* next() returns None; the iterator and its Guard are dropped.
WeakKeysEnd(t) ==
  /\ th[t].pc = "keys"
  /\ th[t].index >= th[t].total
  /\ Return(t, "weak_keys", th[t].total, th[t].yielded)
  /\ deferred' = [deferred EXCEPT ![t] = {}]
  /\ UNCHANGED <<tabvars, live, spur, settled, removed, prefill, budget, capacity_max, destroyed, dropped, conv>>
  /\ TrackFull

WeakKeysStep(t) == WeakKeysCall(t) \/ WeakKeysVisit(t) \/ WeakKeysEnd(t)

\* The collector runs the destructor of a retired element no Guard defers.
Reclaim ==
  /\ \E e \in retired \ destroyed :
       /\ \A u \in Threads : e \notin deferred[u]
       /\ destroyed' = destroyed \cup {e}
  /\ UNCHANGED <<tabvars, th, live, spur, settled, removed, sawFull, prefill, budget,
                 capacity_max, deferred, dropped, conv>>

(***************************************************************************)
(* Drop for Table: exclusive access, so the whole of it is one step.       *)
(***************************************************************************)
\* The loop over data[] in physical order from cell c with count elements
\* still expected: clear() destroys what a non-null cell owns and leaves the
\* cell null; the loop breaks when count reaches zero.
RECURSIVE drop_loop(_, _, _, _)
drop_loop(c, count, dat, cleared) ==
  IF c = LENGTH THEN [data |-> dat, cleared |-> cleared]
  ELSE IF dat[c] = NULL THEN drop_loop(c + 1, count, dat, cleared)
  ELSE LET d == [dat EXCEPT ![c] = NULL]
           acc == Append(cleared, dat[c])
       IN  IF U32Sub(count, 1) = 0 THEN [data |-> d, cleared |-> acc]
           ELSE drop_loop(c + 1, U32Sub(count, 1), d, acc)

\* drop(): nothing when len() is zero, the loop otherwise.
TableDrop ==
  IF TableLen = 0 THEN [data |-> data, cleared |-> <<>>]
  ELSE drop_loop(0, TableLen, data, <<>>)

Drop ==
  /\ Quiescent
  /\ ~dropped.done
  /\ LET r == TableDrop
     IN  /\ data' = r.data
         /\ dropped' = [done |-> TRUE, stored |-> {data[c] : c \in Occupied},
                        cleared |-> r.cleared]
  /\ UNCHANGED <<entries, next_id, free_id, slot, retired, th, spur, live, settled,
                 removed, sawFull, prefill, budget, capacity_max, destroyed, deferred, conv>>

TableStep(t) ==
  \/ WriteReserve(t)
  \/ WriteUndo(t)
  \/ AcquireFetch(t)
  \/ AcquireSwap(t)
  \/ WritePublish(t)
  \/ RemoveEvict(t)
  \/ ReleaseFetch(t)
  \/ ReleaseDeposit(t)
  \/ ReleaseDecr(t)

\* Any step of thread t; remove() is called with any identifier of KeyPool.
Step(t) ==
  \/ TableStep(t)
  \/ \E key \in KeyPool : RemoveCall(t, key)

(***************************************************************************)
(* Specifications.                                                         *)
(***************************************************************************)
\* Fill levels of the table when the worker threads start.
Prefills == {0, LENGTH - 1, LENGTH}

\* The budget of operations and the build's Capacity::MAX.
Configure(ops, max) == budget = ops /\ capacity_max = max

\* The builds analysed: Capacity::MAX far above LENGTH, and Capacity::MAX equal
\* to LENGTH (the maximum-capacity configuration).
Builds == {CAPACITY_MAX, LENGTH}

InitTable(k) ==
  /\ prefill = k
  /\ LET T == Prefilled(k)
     IN  /\ entries = T.entries
         /\ next_id = T.next_id
         /\ free_id = T.free_id
         /\ slot = T.slot
         /\ data = T.data
         /\ retired = T.retired
         /\ live = T.live
         /\ settled = T.live
  /\ removed = {}
  /\ th = [t \in Threads |-> Idle @@ [rets |-> <<>>]]
  /\ spur = 0
  /\ sawFull = [t \in Threads |-> FALSE]
  /\ destroyed = {}
  /\ deferred = [t \in Threads |-> {}]
  /\ dropped = [done |-> FALSE, stored |-> {}, cleared |-> <<>>]

\* The build of the table: LENGTH slots, CACHE_LINE_SLOTS of them in a cache
\* line of 64 bytes.
TableTarget == [CACHE_LINE |-> 64, WIDTH |-> 8]

\* No conversion made yet in build P.
NoConversion(P) ==
  [op |-> "none", P |-> P, abstract |-> 0, concrete |-> 0, detached |-> 0,
   back |-> 0, next |-> 0, image |-> {}]

InitFrom(k) == InitTable(k) /\ conv = NoConversion(ParamsExt(TableTarget, LENGTH))

\* Worker threads operate concurrently on a table the constructing thread
\* filled to one of the levels of Prefills.
Init == Configure(MaxOps, CAPACITY_MAX) /\ \E k \in Prefills : InitFrom(k)

Next == \E t \in Workers : Step(t)

Spec == Init /\ [][Next]_vars

\* As Spec, in both builds.
InitBuilds ==
  \E max \in Builds : Configure(MaxBuildOps, max) /\ \E k \in Prefills : InitFrom(k)

SpecBuilds == InitBuilds /\ [][Next]_vars

\* As SpecBuilds, and the table may be dropped once its threads are done.
NextDrop == Next \/ Drop

SpecDrop == InitBuilds /\ [][NextDrop]_vars

\* As Spec, and the initializer of a write may panic.
NextPanic == Next \/ \E t \in Workers : WritePanic(t)

InitPanic == Configure(MaxPanicOps, CAPACITY_MAX) /\ \E k \in Prefills : InitFrom(k)

SpecPanic == InitPanic /\ [][NextPanic]_vars

\* As SpecPanic, in both builds.
SpecPanicBuilds == InitBuilds /\ [][NextPanic]_vars

\* A step of the operation thread t is in.
Continue(t) == th[t].pc # "idle" /\ TableStep(t)

\* The running thread: it keeps taking the steps of the operation it is in.
\* The other worker is under no fairness: it may stop for ever at any point.
RunningThread == 1

InitFair == Configure(MaxFairOps, CAPACITY_MAX) /\ \E k \in Prefills : InitFrom(k)

SpecFair == InitFair /\ [][Next]_vars /\ WF_vars(Continue(RunningThread))

\* The identifiers of the live entries.
LiveKeys == {e.key : e \in live}

\* As Spec, but remove() is only called with an identifier live at the call.
RemoveCallLive(t, key) == key \in LiveKeys /\ RemoveCall(t, key)

NextLive ==
  \E t \in Workers :
    \/ TableStep(t)
    \/ \E key \in KeyPool : RemoveCallLive(t, key)

InitLive == Configure(MaxLiveOps, CAPACITY_MAX) /\ \E k \in Prefills : InitFrom(k)

SpecLive == InitLive /\ [][NextLive]_vars

\* As SpecLive, with a thread that reads live identifiers and the collector.
ReadCallLive(t, key) == key \in LiveKeys /\ ReadCall(t, key)

NextRead ==
  \/ \E t \in Workers :
       \/ TableStep(t)
       \/ \E key \in KeyPool : RemoveCallLive(t, key)
  \/ ReadStep(MainThread)
  \/ \E key \in KeyPool : ReadCallLive(MainThread, key)
  \/ Reclaim

InitRead == Configure(MaxReadOps, CAPACITY_MAX) /\ \E k \in Prefills : InitFrom(k)

SpecRead == InitRead /\ [][NextRead]_vars

\* One thread operates alone (a sequential history).
InitSeq ==
  \E max \in Builds : Configure(MaxSeqOps, max) /\ \E k \in Prefills : InitFrom(k)

\* The identifiers the inserts of thread t returned.
OwnKeys(t) ==
  {th[t].rets[i].ret : i \in {j \in DOMAIN th[t].rets :
                               th[t].rets[j].op = "insert" /\ th[t].rets[j].ret # NONE}}

\* remove() is called with an identifier an earlier insert of the thread returned.
RemoveCallOwn(t) == \E key \in OwnKeys(t) \ KeyPool : RemoveCall(t, key)

NextSeq ==
  \/ Step(MainThread)
  \/ RemoveCallOwn(MainThread)
  \/ WeakKeysStep(MainThread)

SpecSeq == InitSeq /\ [][NextSeq]_vars

(***************************************************************************)
(* The index conversions on their own, in every build: one conversion of   *)
(* one machine word, or of a range of indices, per behaviour.              *)
(***************************************************************************)
Words == 0 .. (WordMod - 1)

tablevars == <<entries, next_id, free_id, slot, data, retired, th, spur, live, settled,
               removed, sawFull, prefill, budget, capacity_max, destroyed, deferred,
               dropped>>

\* An Abstract word a (an index of any generation, a cursor value) goes
\* through Concrete::from_abstract, Detached::from_abstract and its debug
\* assertion, Concrete::from_detached and Table::generate_next_slot.
ConvertAbstract(a) ==
  /\ conv.op = "none"
  /\ LET P == conv.P
         d == abstract_to_detached_P(P, a)
     IN  conv' = [conv EXCEPT !.op = "abstract",
                              !.abstract = a,
                              !.concrete = abstract_to_concrete_P(P, a),
                              !.detached = d,
                              !.back = detached_to_abstract_P(P, d),
                              !.image = {detached_to_concrete_P(P, d)},
                              !.next = generate_next_slot_P(P, a)]
  /\ UNCHANGED tablevars

\* Detached::from_bits(d) of any word goes through Concrete::from_detached
\* (the lookups, remove) and Abstract::from_detached (remove).
ConvertDetached(d) ==
  /\ conv.op = "none"
  /\ LET P == conv.P
         a == detached_to_abstract_P(P, d)
     IN  conv' = [conv EXCEPT !.op = "detached",
                              !.detached = d,
                              !.concrete = detached_to_concrete_P(P, d),
                              !.abstract = a,
                              !.back = abstract_to_detached_P(P, a),
                              !.next = generate_next_slot_P(P, a)]
  /\ UNCHANGED tablevars

\* Concrete::from_abstract of the indices 0 .. LENGTH - 1.
CoverSlots ==
  /\ conv.op = "none"
  /\ conv' = [conv EXCEPT !.op = "cover",
                          !.image = {abstract_to_concrete_P(conv.P, a) :
                                       a \in 0 .. (conv.P.LENGTH - 1)}]
  /\ UNCHANGED tablevars

\* The blocks (concrete index / CACHE_LINE_SLOTS) of the indices
\* 0 .. CACHE_LINE_SLOTS - 1.
Distribute ==
  /\ conv.op = "none"
  /\ conv' = [conv EXCEPT !.op = "blocks",
                          !.image = {abstract_to_concrete_P(conv.P, a) \div conv.P.CACHE_LINE_SLOTS :
                                       a \in 0 .. (conv.P.CACHE_LINE_SLOTS - 1)}]
  /\ UNCHANGED tablevars

InitIndex ==
  /\ Configure(0, CAPACITY_MAX)
  /\ InitTable(0)
  /\ \E target \in Targets, length \in Capacities :
       conv = NoConversion(ParamsExt(target, length))

NextIndex ==
  \/ \E a \in Words : ConvertAbstract(a)
  \/ \E d \in Words : ConvertDetached(d)
  \/ CoverSlots
  \/ Distribute

SpecIndex == InitIndex /\ [][NextIndex]_vars

(***************************************************************************)
(* Histories: the operations that have returned.                           *)
(***************************************************************************)
Done == UNION {{<<t, i>> : i \in DOMAIN th[t].rets} : t \in Threads}
Ret(p) == th[p[1]].rets[p[2]]

InsertsSome == {p \in Done : Ret(p).op = "insert" /\ Ret(p).ret # NONE}
InsertsNone == {p \in Done : Ret(p).op = "insert" /\ Ret(p).ret = NONE}
RemovesTrue(d) == {p \in Done : Ret(p).op = "remove" /\ Ret(p).arg = d /\ Ret(p).ret}
RemovesFalse == {p \in Done : Ret(p).op = "remove" /\ ~Ret(p).ret}

\* No remove has been called so far.
NoRemoves ==
  /\ \A p \in Done : Ret(p).op = "insert"
  /\ \A t \in Threads : th[t].pc \in {"idle"} \cup InsertPcs

\* Slots free when the threads start.
FreeAtStart == TableCap - prefill

\* Everything the entries counter counts: occupied slots, inserts holding a
\* Permit, removes that evicted and have not decremented yet, failed inserts
\* that have not undone their increment yet.
Busy ==
  Cardinality(Occupied) + Cardinality(Reserving) + Cardinality(Releasing)
    + Cardinality(Undoing)

\* The last operation of thread t was an insert that returned None.
LastInsertFailed(t) ==
  /\ th[t].pc = "idle"
  /\ Len(th[t].rets) > 0
  /\ th[t].rets[Len(th[t].rets)].op = "insert"
  /\ th[t].rets[Len(th[t].rets)].ret = NONE

\* The results of the single thread of the sequential specification.
SeqRets == th[MainThread].rets

\* Entries in the table after the first i operations of the sequential history.
OccupiedAfter(i) ==
  Cardinality(Prefilled(prefill).live)
    + Cardinality({j \in 1 .. i : SeqRets[j].op = "insert" /\ SeqRets[j].ret # NONE})
    - Cardinality({j \in 1 .. i : SeqRets[j].op = "remove" /\ SeqRets[j].ret})

\* Positions i of the sequential history where D = insert(..), remove(D) = true
\* and D2 = insert(..) are consecutive.
Recycles ==
  {i \in DOMAIN SeqRets :
     /\ i + 2 \in DOMAIN SeqRets
     /\ SeqRets[i].op = "insert" /\ SeqRets[i].ret # NONE
     /\ SeqRets[i + 1].op = "remove" /\ SeqRets[i + 1].arg = SeqRets[i].ret
     /\ SeqRets[i + 1].ret
     /\ SeqRets[i + 2].op = "insert" /\ SeqRets[i + 2].ret # NONE}

(***************************************************************************)
(* Properties.                                                             *)
(***************************************************************************)
\* C1: in every interleaving of inserts and removes no two live entries carry
\* the same Detached or occupy the same concrete slot, and every live entry
\* is the content of its own slot.
C1_UniqueSlots ==
  /\ Cardinality({e.key : e \in live}) = Cardinality(live)
  /\ Cardinality({detached_to_concrete(e.key) : e \in live}) = Cardinality(live)
  /\ \A e \in live : data[detached_to_concrete(e.key)] = e

\* Two entries inserted by the worker threads are live, one in a reused slot.
C1_Witness ==
  \E e1, e2 \in live :
    /\ e1 # e2
    /\ e1.val < PrefillValue(0)
    /\ e2.val < PrefillValue(0)
    /\ e1.key >= LENGTH

C3_Capacity ==
  /\ Cardinality(Occupied) + Cardinality(Reserving) <= TableCap
  /\ NoRemoves => Cardinality(InsertsSome) <= FreeAtStart
  /\ (Quiescent /\ NoRemoves /\ Cardinality(Done) > FreeAtStart)
       => /\ Cardinality(InsertsSome) = FreeAtStart
          /\ Cardinality(InsertsNone) = Cardinality(Done) - FreeAtStart

\* Two inserts race for the one free slot: one holds the Permit, the other
\* is undoing its increment.
C3_Witness ==
  /\ prefill = TableCap - 1
  /\ NoRemoves
  /\ \E t, u \in Workers : th[t].pc = "undo" /\ th[u].pc \in PermitPcs

\* C4 (as amended): an insert fails only if, at its fetch-add on entries, the
\* occupied slots, the inserts holding a Permit, the removes between eviction
\* and decrement and the failed inserts not yet undone number at least
\* capacity().
C4_NoneOnlyWhenCounted ==
  [][\A t \in Threads :
       (th[t].pc = "idle" /\ th'[t].pc = "undo") => Busy >= TableCap]_vars

\* An insert is failing although a slot is neither occupied nor reserved.
C4_Witness ==
  \E t \in Workers :
    /\ th[t].pc = "undo"
    /\ Cardinality(Occupied) + Cardinality(Reserving) < TableCap

\* C4 (as stated): an insert returns None only if at some instant between
\* its invocation and its return capacity()-many slots were occupied or
\* reserved by inserts.
C4_Original == \A t \in Threads : LastInsertFailed(t) => sawFull[t]

\* C5 (as stated): from the return of insert(v) = D until a remove targeting
\* D's concrete slot begins, exists(D) is true and read(D) yields v.
C5_Original ==
  \A e \in settled : TableExists(e.key) /\ TableRead(e.key) = e.val

\* C6 (as stated): after remove(D) returns true and until a later insert
\* returns an identifier in the same slot, exists(D) is false, read(D) is
\* None and a further remove(D) does not evict.
C6_Original ==
  /\ [](\A d \in removed : ~TableExists(d) /\ TableRead(d) = NONE)
  /\ [][\A t \in Threads :
          (th[t].pc = "evict" /\ th'[t].pc = "free") => th[t].key \notin removed]_vars

\* C7 (as stated): of the remove(D) calls for an identifier D that was live
\* when they were called, at most one returns true, and exactly one once all
\* have returned.
C7_Original ==
  \A d \in KeyPool :
    /\ Cardinality(RemovesTrue(d)) <= 1
    /\ (Quiescent /\ \E p \in Done : Ret(p).op = "remove" /\ Ret(p).arg = d)
         => Cardinality(RemovesTrue(d)) = 1

\* C8 (as stated): for every Detached that is not live, exists is false, read
\* is None and remove returns false.
C8_Original ==
  /\ [](\A d \in KeyPool : d \notin LiveKeys => ~TableExists(d) /\ TableRead(d) = NONE)
  /\ [][\A t \in Threads :
          (th[t].pc = "evict" /\ th'[t].pc = "free") => th[t].key \in LiveKeys]_vars

\* C9: a remove that returns false changes nothing: neither its call nor its
\* failed eviction changes entries, next_id, free_id, a meta cell, a data
\* cell or what the collector holds.
C9_FailedRemoveFrame ==
  [][\A t \in Threads :
       (th[t].pc = "evict" /\ th'[t].pc = "idle") => UNCHANGED tabvars]_vars

\* A remove has returned false after another remove retired an element.
C9_Witness == RemovesFalse # {} /\ retired # {}

\* C10: on a table filled by N inserts, the next insert returns None and
\* leaves len() = N; a remove of one of the N identifiers then returns true;
\* the insert after it returns an identifier different from all N, read of
\* it yields the new value and len() = N again.
C10_FillFailRecycle ==
  prefill = TableCap =>
    LET r == th[MainThread].rets
        ids == {e.key : e \in Prefilled(prefill).live}
        failed == Len(r) >= 1 /\ r[1].op = "insert"
        freed == failed /\ Len(r) >= 2 /\ r[2].op = "remove" /\ r[2].arg \in ids
        again == freed /\ Len(r) >= 3 /\ r[3].op = "insert"
    IN  /\ failed => r[1].ret = NONE
        /\ (failed /\ Len(r) = 1 /\ Quiescent) => TableLen = TableCap
        /\ freed => r[2].ret
        /\ again => r[3].ret # NONE /\ r[3].ret \notin ids
        /\ (again /\ Len(r) = 3 /\ Quiescent)
             => TableRead(r[3].ret) = r[3].arg /\ TableLen = TableCap

\* The full table refused an insert, released a slot and took the next insert.
C10_Witness ==
  /\ prefill = TableCap
  /\ Quiescent
  /\ LET r == th[MainThread].rets
     IN  /\ Len(r) = 3
         /\ r[1].op = "insert"
         /\ r[2].op = "remove" /\ r[2].ret
         /\ r[3].op = "insert" /\ r[3].ret # NONE

\* C11 (as amended): on a single thread, when D = insert(..), remove(D) = true
\* and D2 = insert(..) are consecutive, D2 differs from D in its bits; when
\* all LENGTH slots were occupied before remove(D), D2 is the next generation
\* of D in D's own slot.
C11_RecycleNewGeneration ==
  \A i \in Recycles :
    LET D == SeqRets[i].ret
        D2 == SeqRets[i + 2].ret
    IN  /\ D2 # D
        /\ OccupiedAfter(i) = LENGTH =>
             /\ D2 = abstract_to_detached(WrappingAdd(detached_to_abstract(D), LENGTH))
             /\ detached_to_concrete(D2) = detached_to_concrete(D)

\* An insert filled the table, its identifier was removed and the next insert
\* took the slot again.
C11_Witness ==
  \E i \in Recycles :
    /\ OccupiedAfter(i) = LENGTH
    /\ detached_to_concrete(SeqRets[i + 2].ret) = detached_to_concrete(SeqRets[i].ret)

\* C11 (as stated): D2 differs from D in its bits and has D's concrete part.
C11_Original ==
  \A i \in Recycles :
    /\ SeqRets[i + 2].ret # SeqRets[i].ret
    /\ detached_to_concrete(SeqRets[i + 2].ret) = detached_to_concrete(SeqRets[i].ret)

\* The identifiers the inserts that filled the table before the threads
\* started returned.
PrefillKeys == {e.key : e \in Prefilled(prefill).live}

\* C12 (as stated): when remove is only called with identifiers live at the
\* call, every identifier an insert returns differs from every identifier an
\* earlier insert on the table returned.
C12_Original ==
  /\ \A p \in InsertsSome : Ret(p).ret \notin PrefillKeys
  /\ \A p, q \in InsertsSome : p # q => Ret(p).ret # Ret(q).ret

\* The elements ever published in the table.
Published == live \cup retired

\* C13 (as stated): a read(D) called while D is live, racing with remove(D),
\* yields the value published under D or None; an element loaded under a
\* Guard is not destroyed before the Guard ends.
C13_Original ==
  /\ \A p \in Done :
       (Ret(p).op = "read" /\ Ret(p).ret # NONE)
         => \E e \in Published : e.key = Ret(p).arg /\ e.val = Ret(p).ret
  /\ \A t \in Threads : (Guarded(t) /\ th[t].held # NULL) => th[t].held \notin destroyed

\* The sequential thread is idle and its last operation was a weak_keys().
KeysDone ==
  /\ th[MainThread].pc = "idle"
  /\ Len(SeqRets) > 0
  /\ SeqRets[Len(SeqRets)].op = "weak_keys"

\* What that iteration yielded: the identifiers with the elements loaded.
LastYield == SeqRets[Len(SeqRets)].ret

\* Everything weak_keys iterations have yielded so far.
Yields ==
  UNION {{th[t].yielded[i] : i \in DOMAIN th[t].yielded} : t \in Threads}
    \cup UNION {{Ret(p).ret[i] : i \in DOMAIN Ret(p).ret} :
                 p \in {q \in Done : Ret(q).op = "weak_keys"}}

\* C14 (as stated): every identifier weak_keys yields is the identifier of
\* the entry that was live in the slot at the instant the iterator loaded it.
C14_Original == \A y \in Yields : y.id = y.found.key

\* C15 (as stated): on a quiescent table, in every build, weak_keys yields
\* exactly len() identifiers whose concrete parts are pairwise distinct and
\* cover exactly the occupied slots.
C15_Original ==
  KeysDone =>
    LET parts == {detached_to_concrete(LastYield[i].id) : i \in DOMAIN LastYield}
    IN  /\ Len(LastYield) = TableLen
        /\ Cardinality(parts) = Len(LastYield)
        /\ parts = Occupied

\* The identifiers the successful inserts returned, in insertion order: those
\* that filled the table, then those of the sequential thread.
PrefillOrder ==
  [i \in 1 .. Cardinality(Prefilled(prefill).live) |->
     (CHOOSE e \in Prefilled(prefill).live : e.val = PrefillValue(i - 1)).key]

RECURSIVE InsertOrder(_)
InsertOrder(n) ==
  IF n = 0 THEN PrefillOrder
  ELSE IF SeqRets[n].op = "insert" /\ SeqRets[n].ret # NONE
       THEN Append(InsertOrder(n - 1), SeqRets[n].ret)
       ELSE InsertOrder(n - 1)

\* C16: when only inserts came before it, weak_keys yields exactly the
\* identifiers the successful inserts returned, bit for bit and in insertion
\* order.
C16_KeysInInsertionOrder ==
  (KeysDone /\ \A j \in DOMAIN SeqRets : SeqRets[j].op # "remove")
    => [i \in DOMAIN LastYield |-> LastYield[i].id] = InsertOrder(Len(SeqRets))

\* A weak_keys over entries of both cache-line blocks, the last of them
\* inserted by the sequential thread, has returned.
C16_Witness ==
  /\ KeysDone /\ \A j \in DOMAIN SeqRets : SeqRets[j].op # "remove"
  /\ Len(LastYield) >= 2
  /\ Len(SeqRets) >= 2 /\ SeqRets[Len(SeqRets) - 1].op = "insert"
  /\ SeqRets[Len(SeqRets) - 1].ret = LastYield[Len(LastYield)].id

\* Thread t takes a step of an insert that fails: the fetch-add that finds no
\* room, or a round of the loop that undoes it.
FailingStep(t) ==
  \/ th[t].pc = "idle" /\ th'[t].pc = "undo"
  \/ th[t].pc = "undo" /\ th'[t] # th[t]

\* C17: an insert that returns None changes nothing but entries, and entries
\* by net zero: the counter always equals its initial value plus the occupied
\* slots and the operations in flight that hold an increment, so failed
\* inserts that have returned hold none and no capacity is lost.
C17_FailedInsertNoEffect ==
  /\ [](entries = VolatileNewEntries + Busy)
  /\ [][\A t \in Threads :
          FailingStep(t) => UNCHANGED <<next_id, free_id, slot, data>>]_vars

\* Both workers had an insert fail, one of them after a lost round of the
\* undo loop, and all operations have returned.
C17_Witness ==
  /\ Quiescent
  /\ \A t \in Workers :
       \E i \in DOMAIN th[t].rets : th[t].rets[i].op = "insert" /\ th[t].rets[i].ret = NONE
  /\ spur > 0

\* C18: in every state, those where failed inserts have pushed the counter
\* above LENGTH included, len() lies between 0 and capacity(), and the raw
\* counter is never below its initial value nor wrapped around.
C18_LenWithinCapacity ==
  /\ 0 <= TableLen /\ TableLen <= TableCap
  /\ entries >= (IF LENGTH = capacity_max THEN 1 ELSE 0)
  /\ entries <= LENGTH + Cardinality(Workers)

\* Two failed inserts have pushed the counter of a full table of the
\* maximum-capacity build above LENGTH.
C18_Witness ==
  /\ capacity_max = LENGTH
  /\ entries > LENGTH
  /\ \A t \in Workers : th[t].pc = "undo"

\* A table nothing was inserted into and no operation has begun on.
FreshTable == prefill = 0 /\ \A t \in Threads : Begun(t) = 0

TimesCleared(e) == Cardinality({i \in DOMAIN dropped.cleared : dropped.cleared[i] = e})

\* C20: a drop of the quiescent table destroys every element data[] held
\* exactly once (none of them was handed to the collector as well) and
\* leaves no cell occupied.
C20_DropDestroysAll ==
  dropped.done =>
    /\ \A e \in dropped.stored : TimesCleared(e) = 1 /\ e \notin retired
    /\ Len(dropped.cleared) = Cardinality(dropped.stored)
    /\ Occupied = {}

\* A drop that left its loop early: the last cell of data[] was empty, other
\* cells were not, and a remove had succeeded before.
C20_Witness ==
  /\ dropped.done
  /\ dropped.stored # {}
  /\ \A e \in dropped.stored : detached_to_concrete(e.key) # LENGTH - 1
  /\ \E d \in KeyPool : RemovesTrue(d) # {}

\* The writes whose initializer panicked.
Panicked == {p \in Done : Ret(p).op = "write_panic"}

\* Thread t returns from a successful insert in this step.
InsertReturns(t) == th[t].pc = "publish" /\ th'[t].pc = "idle" /\ data' # data

\* C21 (as amended): after the initializer of a write panicked, data[C] of
\* the claimed identifier stays null, no metadata cell holds an identifier of
\* slot C, and no later insert returns an identifier of slot C.
C21_PanicLeaksSlot ==
  /\ [](\A p \in Panicked :
          LET C == detached_to_concrete(Ret(p).ret)
          IN  /\ data[C] = NULL
              /\ \A i \in Slots : slot[i] = RESERVED \/ abstract_to_concrete(slot[i]) # C)
  /\ [][\A t \in Threads : \A p \in Panicked :
          InsertReturns(t) =>
            detached_to_concrete(abstract_to_detached(th[t].abs))
              # detached_to_concrete(Ret(p).ret)]_vars

\* After a panic the cell the identifier was claimed from has been refilled
\* by the deposit of a remove, and an insert has succeeded.
C21_Witness ==
  /\ \E p \in Panicked : slot[Ret(p).arg] # RESERVED
  /\ InsertsSome # {}
  /\ \E d \in KeyPool : RemovesTrue(d) # {}

\* C21 (as stated): after the panic data[C] stays null, the metadata cell
\* the identifier was claimed from holds RESERVED in every later state, and
\* no later insert returns the identifier.
C21_Original ==
  /\ [](\A p \in Panicked :
          /\ data[detached_to_concrete(Ret(p).ret)] = NULL
          /\ slot[Ret(p).arg] = RESERVED)
  /\ [][\A t \in Threads : \A p \in Panicked :
          InsertReturns(t) => abstract_to_detached(th[t].abs) # Ret(p).ret]_vars

\* Some operation is pending.
Pending == \E t \in Threads : th[t].pc # "idle"

\* C22: a thread inside an operation always has a step to take, and while
\* the running thread keeps taking steps inside an operation some operation
\* completes, wherever the other thread has stopped.
C22_LockFree ==
  /\ [](\A t \in Threads : th[t].pc # "idle" => ENABLED Continue(t))
  /\ \A k \in 0 .. MaxFairOps :
       (th[RunningThread].pc # "idle" /\ Cardinality(Done) = k) ~> (Cardinality(Done) > k)

\* The running thread is in the retry loop of acquire_slot or release_slot
\* while the other thread is inside an operation of its own.
C22_Witness ==
  /\ th[RunningThread].pc \in {"next", "claim", "free", "deposit"}
  /\ \E t \in Workers \ {RunningThread} : th[t].pc \in {"publish", "free", "deposit", "decr", "undo"}

\* The sequential thread is idle and its last operation was an insert that
\* returned an identifier.
InsertDone ==
  /\ th[MainThread].pc = "idle"
  /\ Len(SeqRets) > 0
  /\ SeqRets[Len(SeqRets)].op = "insert"
  /\ SeqRets[Len(SeqRets)].ret # NONE

\* C23: the element a write published stores the identifier its initializer
\* was given; looked up under the identifier the write returned it is found,
\* it stores that very identifier, and the initializer's product was
\* published once.
C23_InitGetsReturnedIdentifier ==
  InsertDone =>
    LET D == SeqRets[Len(SeqRets)].ret
        v == SeqRets[Len(SeqRets)].arg
    IN  /\ TableFind(D) # NULL
        /\ TableFind(D).key = D
        /\ TableFind(D).val = v
        /\ Cardinality({e \in Published : e.val = v}) = 1

\* The insert that just returned reused a slot: its identifier carries a
\* generation above zero and does not sit in the first cache-line block.
C23_Witness ==
  /\ InsertDone
  /\ SeqRets[Len(SeqRets)].ret >= LENGTH
  /\ \E i \in DOMAIN SeqRets :
       /\ SeqRets[i].op = "insert" /\ SeqRets[i].ret # NONE
       /\ detached_to_concrete(SeqRets[i].ret) >= CACHE_LINE_SLOTS

\* C24: whatever identifiers remove is called with, a write about to publish
\* finds the cell of data[] of its identifier null, and the step that
\* publishes overwrites no element.
C24_PublishFindsNull ==
  /\ [](\A t \in Threads :
          th[t].pc = "publish" => data[abstract_to_concrete(th[t].abs)] = NULL)
  /\ [][\A c \in Slots : data[c] # NULL => data'[c] \in {NULL, data[c]}]_vars

\* A write is about to publish into a slot that a remove called with an
\* identifier no insert had returned has emptied.
C24_Witness ==
  /\ \E t \in Threads : th[t].pc = "publish" /\ th[t].abs >= 2 * LENGTH
  /\ \E p \in Done : Ret(p).op = "remove" /\ Ret(p).ret /\ Ret(p).arg \notin PrefillKeys

\* Where Abstract values are: the metadata cells that hold one, the inserts
\* that have claimed one and not published, the live entries, the removes
\* that have evicted and not deposited yet.
FreeCells == {i \in Slots : slot[i] # RESERVED}
Claiming == {t \in Threads : th[t].pc = "publish"}
Depositing == {t \in Threads : th[t].pc \in {"free", "deposit"}}
AbstractsAround ==
  {slot[i] : i \in FreeCells} \cup {th[t].abs : t \in Claiming}
    \cup {detached_to_abstract(e.key) : e \in live} \cup {th[t].nxt : t \in Depositing}

\* C25: no Abstract value is in two places at once: two metadata cells, a
\* cell and an owner, or two owners.
C25_FreeListIsSet ==
  Cardinality(AbstractsAround)
    = Cardinality(FreeCells) + Cardinality(Claiming) + Cardinality(live)
        + Cardinality(Depositing)

\* Identifiers are in a cell, naming live entries and held by a remove at the
\* same time, after another remove succeeded.
C25_Witness ==
  /\ FreeCells # {} /\ Depositing # {} /\ live # {}
  /\ \E p \in Done : Ret(p).op = "remove" /\ Ret(p).ret

\* C26 (as amended): every metadata cell holds RESERVED or an Abstract whose
\* slot is free: the cell of data[] it names is null and no other metadata
\* cell names the same slot.
C26_CellsNameFreeSlots ==
  /\ \A i \in FreeCells : data[abstract_to_concrete(slot[i])] = NULL
  /\ Cardinality({abstract_to_concrete(slot[i]) : i \in FreeCells}) = Cardinality(FreeCells)

\* A metadata cell holds an identifier of another slot than its own.
C26_Witness ==
  \E i \in FreeCells : abstract_to_concrete(slot[i]) # i

\* C26 (as stated): every metadata cell holds RESERVED or an Abstract whose
\* concrete part is the index of the cell, and so does every value an insert
\* has swapped out of the cell under its cursor.
C26_Original ==
  /\ \A i \in FreeCells : abstract_to_concrete(slot[i]) = i
  /\ \A t \in Claiming : abstract_to_concrete(th[t].abs) = abstract_to_concrete(th[t].cur)

\* Positions of the sequential history where an insert returned an identifier.
Assigned == {i \in DOMAIN SeqRets : SeqRets[i].op = "insert" /\ SeqRets[i].ret # NONE}

\* Identifier b follows identifier a in the cyclic order of the identifier range.
Advances(a, b) == ((b - a) % WordMod) \in 1 .. (WordMod \div 2)

\* C27 (as stated): the identifiers successively assigned to one slot by
\* insert strictly increase in generation modulo the identifier range, and
\* none of them is RESERVED, also when remove is called with identifiers
\* that are no longer live.
C27_Original ==
  \A k \in Assigned :
    /\ detached_to_abstract(SeqRets[k].ret) # RESERVED
    /\ \A d \in PrefillKeys \cup {SeqRets[j].ret : j \in {i \in Assigned : i < k}} :
         detached_to_concrete(d) = detached_to_concrete(SeqRets[k].ret)
           => Advances(d, SeqRets[k].ret)

\* Entries in allocation: inserts that advanced next_id and have not yet
\* published, and the identifiers a panicking initializer left claimed.
\* Entries occupied: non-null cells of data[], and evicted entries whose
\* remove has not yet advanced free_id.
InAllocation == {t \in Threads : th[t].pc \in {"claim", "publish"}}
Evicted == {t \in Threads : th[t].pc = "free"}
CursorGap == (next_id - free_id) % U32Mod
Accounted ==
  Cardinality(InAllocation) + Cardinality(Panicked) + Cardinality(Occupied) + Cardinality(Evicted)
Drift == (CursorGap - Accounted) % U32Mod

\* A round of acquire_slot found RESERVED; a round of release_slot failed its
\* compare-exchange.
AcquireRetry == \E t \in Threads : th[t].pc = "claim" /\ th'[t].pc = "next"
ReleaseRetry == \E t \in Threads : th[t].pc = "deposit" /\ th'[t].pc = "free"

\* C28 (as amended): next_id - free_id modulo the width of the cursors equals
\* the entries in allocation plus the entries occupied as long as no round
\* of acquire_slot or release_slot was retried; a retry of acquire_slot adds
\* one to the difference and a retry of release_slot takes one away, and no
\* other step changes it.
C28_CursorGap ==
  /\ Drift = 0
  /\ [][Drift' = (Drift + (IF AcquireRetry THEN 1 ELSE 0)
                        - (IF ReleaseRetry THEN 1 ELSE 0)) % U32Mod]_vars

\* A retry that no spurious failure caused has moved the difference of the
\* cursors away from the sum.
C28_Witness ==
  /\ Drift # 0
  /\ spur = 0
  /\ InsertsSome # {}
  /\ RemovesTrue(abstract_to_detached(1)) # {}

\* C28 (as stated): in every reachable state next_id - free_id modulo the
\* width of the cursors equals the entries in allocation plus the entries
\* occupied.
C28_Original == Drift = 0

\* The threads about to fetch next_id in acquire_slot.
Acquiring == {t \in Threads : th[t].pc = "next"}

\* The compare-exchanges that may still fail spuriously.
SpuriousLeft == 0 .. (MaxSpurious - spur)

\* C29 (as amended): wherever the other threads have stopped, a thread that
\* runs alone claims an identifier within LENGTH advances of next_id;
\* deposits an identifier within LENGTH advances of free_id when no
\* compare-exchange fails spuriously, and within LENGTH more for every
\* spurious failure; and undoes a failed reservation within two rounds, one
\* more for every spurious failure.
C29_LoopsTerminate ==
  /\ \A t \in Acquiring : acquire_slot_rounds(Tab, 1) <= LENGTH
  /\ \A t \in Evicted : \A s \in SpuriousLeft :
       release_slot_rounds(Tab, th[t].nxt, s, 1) <= LENGTH * (1 + s)
  /\ \A t \in Undoing : \A s \in SpuriousLeft :
       reserve_slot_undo_rounds(Tab, th[t].current, s, 1) <= 2 + s

\* A remove whose compare-exchange failed spuriously is about to fetch
\* free_id again and needs all LENGTH advances to come back to the cell.
C29_Witness ==
  /\ spur > 0
  /\ \E t \in Evicted : release_slot_rounds(Tab, th[t].nxt, 0, 1) = LENGTH

\* C29 (as stated): a thread that runs alone claims within LENGTH advances of
\* next_id, deposits within LENGTH advances of free_id, and completes its
\* undo loop.
C29_Original ==
  /\ \A t \in Acquiring : acquire_slot_rounds(Tab, 1) <= LENGTH
  /\ \A t \in Evicted : \A s \in SpuriousLeft :
       release_slot_rounds(Tab, th[t].nxt, s, 1) <= LENGTH
  /\ \A t \in Undoing : \A s \in SpuriousLeft :
       reserve_slot_undo_rounds(Tab, th[t].current, s, 1) < MaxRounds

\* Only inserts have been called on the table, and none is under way.
OnlyInserts == Quiescent /\ \A j \in DOMAIN SeqRets : SeqRets[j].op = "insert"

\* The identifiers of the Abstract values 0, 1, ..., n - 1 in that order.
FirstIdentifiers(n) == [i \in 1 .. n |-> abstract_to_detached(i - 1)]

\* What the first inserts leave behind when n of them found a free slot.
FirstInserts(n) ==
  /\ InsertOrder(Len(SeqRets)) = FirstIdentifiers(n)
  /\ Occupied = {abstract_to_concrete(a) : a \in 0 .. (n - 1)}
  /\ Cardinality(Occupied) = n
  /\ next_id = n

\* A freshly constructed table: data[] all null, every metadata cell holds
\* the Abstract of generation 0 whose concrete part is the position of the cell.
FreshLayout ==
  \A p \in Slots :
    /\ data[p] = NULL
    /\ slot[p] \in 0 .. (LENGTH - 1)
    /\ abstract_to_concrete(slot[p]) = p

\* Inserts called so far, those that filled the table included.
InsertCalls == prefill + Len(SeqRets)

C31_ConcreteCoversSlots ==
  conv.op = "cover" =>
    /\ conv.image = 0 .. (conv.P.LENGTH - 1)
    /\ Cardinality(conv.image) = conv.P.LENGTH

\* The indices of a build with several blocks were converted.
C31_Witness ==
  /\ conv.op = "cover"
  /\ conv.P.BLOCKS > 1
  /\ conv.P.LENGTH > CAPACITY_MIN

\* C32: in every build and for every Abstract word, of any generation,
\* Abstract::from_detached undoes Detached::from_abstract: the debug assertion
\* of abstract_to_detached holds.
C32_AbstractRoundTrip ==
  conv.op = "abstract" => conv.back = conv.abstract

\* A word of a later generation whose index the conversion moves was converted.
C32_Witness ==
  /\ conv.op = "abstract"
  /\ conv.abstract >= conv.P.LENGTH
  /\ conv.detached # conv.abstract

\* C33 (as stated): in every build and for every Abstract word A,
\* Concrete::from_detached of Detached::from_abstract(A) is
\* Concrete::from_abstract(A), and the bits of the Detached above the low
\* lg LENGTH bits are those of A.
C33_Original ==
  conv.op = "abstract" =>
    /\ conv.image = {conv.concrete}
    /\ conv.detached \div conv.P.LENGTH = conv.abstract \div conv.P.LENGTH

\* The builds whose cache line holds no more slots than the table.
WholeLines == conv.P.CACHE_LINE_SLOTS <= conv.P.LENGTH

Min(a, b) == IF a < b THEN a ELSE b

C35_Original ==
  conv.op = "abstract" =>
    conv.concrete = (conv.abstract % conv.P.CACHE_LINE_SLOTS) * conv.P.CACHE_LINE_SLOTS
                    + ((conv.abstract \div conv.P.CACHE_LINE_SLOTS) % conv.P.BLOCKS)

\* C35: in every build and for every Abstract word A, the low lg BLOCKS bits
\* of A are the block (Concrete / CACHE_LINE_SLOTS) and the next
\* lg CACHE_LINE_SLOTS bits of A are the offset in the block.
C35_BlockFromLowBits ==
  conv.op = "abstract" =>
    /\ conv.concrete \div conv.P.CACHE_LINE_SLOTS = conv.abstract % conv.P.BLOCKS
    /\ conv.concrete % conv.P.CACHE_LINE_SLOTS
         = (conv.abstract \div conv.P.BLOCKS) % conv.P.CACHE_LINE_SLOTS

\* A word of a later generation with a block and an offset other than 0 was
\* converted in a build whose blocks are not as many as the slots of a line.
C35_Witness ==
  /\ conv.op = "abstract"
  /\ conv.P.BLOCKS > 1
  /\ conv.P.BLOCKS # conv.P.CACHE_LINE_SLOTS
  /\ conv.abstract >= conv.P.LENGTH
  /\ conv.concrete \div conv.P.CACHE_LINE_SLOTS > 0
  /\ conv.concrete % conv.P.CACHE_LINE_SLOTS > 0

\* C36: in every build and for every Abstract word A, generate_next_slot(A)
\* is not RESERVED, is not A, has the low lg LENGTH bits of A, and is
\* A + LENGTH modulo the word, or A + 2 * LENGTH when A + LENGTH is RESERVED.
C36_NextSlot ==
  conv.op = "abstract" =>
    LET A == conv.abstract
        N == conv.P.LENGTH
        once == (A + N) % WordMod
    IN /\ conv.next # RESERVED
       /\ conv.next # A
       /\ conv.next % N = A % N
       /\ conv.next = IF once = RESERVED THEN (A + 2 * N) % WordMod ELSE once

\* The successor of the word whose next generation would be RESERVED was
\* computed.
C36_Witness ==
  /\ conv.op = "abstract"
  /\ (conv.abstract + conv.P.LENGTH) % WordMod = RESERVED
  /\ conv.next = (conv.abstract + 2 * conv.P.LENGTH) % WordMod

\* C37 (as stated): in every build, every word taken as Detached bits or as a
\* cursor value converts to a Concrete index below LENGTH.
C37_Original ==
  conv.op \in {"abstract", "detached"} =>
    /\ conv.concrete < conv.P.LENGTH
    /\ \A c \in conv.image : c < conv.P.LENGTH

\* The metadata cells that hold RESERVED.
ReservedCells == Slots \ FreeCells

\* C38: the metadata cells holding RESERVED are as many as the identifiers
\* claimed and not returned: those of the inserts between their swap and
\* their publication, those a panicking initializer left claimed, those of
\* the occupied slots and those of the removes between their eviction and
\* their deposit.
C38_ReservedCount ==
  Cardinality(ReservedCells)
    = Cardinality(Claiming) + Cardinality(Panicked) + Cardinality(Occupied)
        + Cardinality(Depositing)

\* A panicked write has left its identifier claimed, a remove is between its
\* eviction and its deposit, and slots are occupied.
C38_Witness ==
  /\ Panicked # {} /\ Depositing # {} /\ Occupied # {}
  /\ Cardinality(ReservedCells) > Cardinality(Occupied) + 1

\* The slot each metadata cell names (LENGTH for a cell holding RESERVED),
\* each thread's slot when it is between the swap of acquire_slot and its
\* publication, each thread's slot when it is between the eviction and the
\* deposit of a remove, and the slots panicked writes left claimed.
CellSlot == [i \in Slots |-> IF slot[i] = RESERVED THEN LENGTH ELSE abstract_to_concrete(slot[i])]
ClaimedSlot ==
  [t \in Threads |-> IF t \in Claiming THEN abstract_to_concrete(th[t].abs) ELSE LENGTH]
EvictedSlot ==
  [t \in Threads |-> IF t \in Depositing THEN detached_to_concrete(th[t].key) ELSE LENGTH]
LeakedSlots == {detached_to_concrete(Ret(p).ret) : p \in Panicked}

\* C39 (as stated): for every slot c exactly one holds: exactly one metadata
\* cell names c; an insert in flight has claimed c and not published; data[c]
\* is not null; a remove in flight has evicted data[c] and not deposited.
C39_Original ==
  LET cells == CellSlot
      claimed == ClaimedSlot
      evicted == EvictedSlot
      One(b) == IF b THEN 1 ELSE 0
  IN  \A c \in Slots :
        One(Cardinality({i \in Slots : cells[i] = c}) = 1)
          + One(\E t \in Threads : claimed[t] = c)
          + One(data[c] # NULL)
          + One(\E t \in Threads : evicted[t] = c) = 1

\* C39: every slot c has exactly one holder among: the metadata cells naming
\* c, the inserts in flight that claimed c and have not published, the entry
\* in data[c], the removes in flight that evicted data[c] and have not
\* deposited, and the writes whose initializer panicked after claiming c.
\* Stated by counting: the holders are LENGTH in number and every slot is
\* among the slots they hold.
C39_OneHolderPerSlot ==
  /\ Cardinality(FreeCells) + Cardinality(Claiming) + Cardinality(Occupied)
       + Cardinality(Depositing) + Cardinality(Panicked) = LENGTH
  /\ {abstract_to_concrete(slot[i]) : i \in FreeCells}
       \cup {abstract_to_concrete(th[t].abs) : t \in Claiming}
       \cup Occupied
       \cup {detached_to_concrete(th[t].key) : t \in Depositing}
       \cup LeakedSlots = Slots

\* A slot is held by a panicked write while a remove called with an
\* identifier no insert returned is between its eviction and its deposit.
C39_Witness ==
  /\ LeakedSlots # {}
  /\ \E t \in Depositing : th[t].key \notin PrefillKeys

\* The Abstract value release_slot deposits when remove(key) has evicted an
\* entry.
Freed(key) == generate_next_slot(detached_to_abstract(key))

\* The free Abstract values, oldest first, after the first i operations of
\* the history rets on a table whose filling took the first n: a fresh table
\* offers them in ascending order, an insert takes the one it returned (or
\* claimed before its initializer panicked) and a successful remove adds the
\* one it freed at the end.
RECURSIVE FreeQueue(_, _, _)
FreeQueue(n, rets, i) ==
  IF i = 0 THEN [j \in 1 .. (LENGTH - n) |-> n + j - 1]
  ELSE LET q == FreeQueue(n, rets, i - 1)
           r == rets[i]
       IN  IF r.op \in {"insert", "write_panic"} /\ r.ret # NONE
           THEN IF q # <<>> /\ Head(q) = detached_to_abstract(r.ret) THEN Tail(q)
                ELSE SelectSeq(q, LAMBDA a : a # detached_to_abstract(r.ret))
           ELSE IF r.op = "remove" /\ r.ret THEN Append(q, Freed(r.arg))
           ELSE q

\* The inserts that filled the table before the history took the first
\* prefill Abstract values, or capacity() of them when the table was full.
PrefillTaken == IF prefill < TableCap THEN prefill ELSE TableCap

\* The insert that has just returned an identifier returned the oldest free
\* one; holding in every state, it holds of every insert of the history.
FifoOrder ==
  LET last == Len(SeqRets)
  IN  (/\ Quiescent
       /\ last > 0
       /\ SeqRets[last].op = "insert"
       /\ SeqRets[last].ret # NONE)
        => LET q == FreeQueue(PrefillTaken, SeqRets, last - 1)
           IN  q # <<>> /\ Head(q) = detached_to_abstract(SeqRets[last].ret)

====
